---- MODULE Spec2Model ----
(***************************************************************************)
(* Model of src/main.py: the text chunker                                  *)
(* sanitize_and_prepare_text_for_llm and the command line around it.       *)
(*                                                                         *)
(* A string is a sequence of Unicode code points (naturals); len() is Len, *)
(* s + t is s \o t.                                                        *)
(***************************************************************************)
EXTENDS Integers, Sequences, FiniteSets, TLC

VARIABLES
    input,        \* the argument `text` as passed by the caller
    min_chars,    \* the argument min_chars
    max_chars,    \* the argument max_chars
    text,         \* the local `text` (reassigned by Step 1)
    sentences,    \* the local `sentences`
    idx,          \* position of the for loop in `sentences` (1-based)
    current,      \* the local `current`
    lines,        \* the local `lines`
    result,       \* the returned string
    pc,           \* position in sanitize_and_prepare_text_for_llm
    pending,      \* history: the sentences appended to `current` since it was last reset
    merged,       \* history: some sentence of `current` was appended by line 49
    lineInfo,     \* history: for each element of `lines`, how it was built
    trace,        \* history: for each sentence that passed line 40, the branch it took
    cli_pc,       \* position in main / the __main__ block
    file_path,    \* main's file_path: [given, path], given = FALSE for None
    text_content, \* main's text_content
    out_name,     \* main's out_name
    processed_text, \* main's processed_text
    tts_calls,    \* the calls of tts.tts_to_file made so far
    log,          \* what was printed about errors and fallbacks
    failure       \* history: the surrounding-system error that occurred, if any

fvars == <<input, min_chars, max_chars, text, sentences, idx, current, lines,
           result, pc, pending, merged, lineInfo, trace>>

cvars == <<cli_pc, file_path, text_content, out_name, processed_text, tts_calls,
           log, failure>>

vars == <<fvars, cvars>>

-----------------------------------------------------------------------------
(* Characters *)

EmDash == 8212
EnDash == 8211
Nbsp == 160
Hyphen == 45
Space == 32
Newline == 10

\* str.isspace() / the regex class \s on a str pattern
IsSpace(c) ==
    c \in {9, 10, 11, 12, 13, 28, 29, 30, 31, 32, 133, 160, 5760, 8232, 8233, 8239, 8287, 12288}
    \/ (c >= 8192 /\ c <= 8202)

\* str.strip()
RECURSIVE LStrip(_)
LStrip(s) ==
    IF s # <<>> /\ IsSpace(s[1]) THEN LStrip(Tail(s)) ELSE s

RECURSIVE RStrip(_)
RStrip(s) ==
    IF s # <<>> /\ IsSpace(s[Len(s)]) THEN RStrip(SubSeq(s, 1, Len(s) - 1)) ELSE s

Strip(s) == RStrip(LStrip(s))

\* the least element of a non-empty set of integers
Least(S) == CHOOSE m \in S : \A j \in S : m <= j

\* the positions at which `old` occurs in s
Occurrences(s, old) ==
    {i \in 1..(Len(s) - Len(old) + 1) : SubSeq(s, i, i + Len(old) - 1) = old}

\* str.replace(old, new) for a non-empty old: leftmost first, non-overlapping
RECURSIVE ReplaceAll(_, _, _)
ReplaceAll(s, old, new) ==
    IF Occurrences(s, old) = {} THEN s
    ELSE LET p == Least(Occurrences(s, old))
         IN  SubSeq(s, 1, p - 1) \o new
             \o ReplaceAll(SubSeq(s, p + Len(old), Len(s)), old, new)

-----------------------------------------------------------------------------
(* Step 1: normalization *)

\* the table with its last entry left out
replacementsWithoutNbsp ==
    << [old |-> <<34>>, new |-> <<34>>],
       [old |-> <<58, 32, 34, 39, 34, 44, 32>>, new |-> <<39>>],
       [old |-> <<EmDash>>, new |-> <<Hyphen>>],
       [old |-> <<EnDash>>, new |-> <<Hyphen>>] >>

\* The dict literal of lines 20-25, in insertion order.  As the file is
\* written its quote characters are all ASCII: the first entry maps '"' to
\* itself, and the second line is ONE entry whose key is the triple-quoted
\* string  : "'",  (colon, space, double quote, single quote, double quote,
\* comma, space) and whose value is "'".
replacements ==
    << [old |-> <<34>>, new |-> <<34>>],
       [old |-> <<58, 32, 34, 39, 34, 44, 32>>, new |-> <<39>>],
       [old |-> <<EmDash>>, new |-> <<Hyphen>>],
       [old |-> <<EnDash>>, new |-> <<Hyphen>>],
       [old |-> <<Nbsp>>, new |-> <<Space>>] >>

\* for old, new in replacements.items(): text = text.replace(old, new)
RECURSIVE ApplyFrom(_, _, _)
ApplyFrom(table, k, s) ==
    IF k > Len(table) THEN s
    ELSE ApplyFrom(table, k + 1, ReplaceAll(s, table[k].old, table[k].new))

ApplyReplacements(s) == ApplyFrom(replacements, 1, s)

\* the filter with the class written [^\x00-\x7E]: control characters stay
RemoveInvalidKeepsControl(s) ==
    LET Ascii(c) == c <= 126 IN SelectSeq(s, Ascii)

\* the complement of the class [^\x20-\x7E\n\r\t]
Kept(c) == (c >= 32 /\ c <= 126) \/ c \in {10, 13, 9}

\* re.sub(r'[^\x20-\x7E\n\r\t]', '', text)
RemoveInvalid(s) == SelectSeq(s, Kept)

\* re.sub(r'\s+', ' ', text): the first character of each run of whitespace
\* becomes a space, the others of the run go
Surviving(c) == c # -1

CollapseWhitespace(s) ==
    SelectSeq([i \in 1..Len(s) |->
                  IF ~IsSpace(s[i]) THEN s[i]
                  ELSE IF i > 1 /\ IsSpace(s[i - 1]) THEN -1
                  ELSE Space],
              Surviving)

\* lines 26-31
Step1(s) == Strip(CollapseWhitespace(RemoveInvalid(ApplyReplacements(s))))

-----------------------------------------------------------------------------
(* Step 2: sentence splitting *)

Terminal == {46, 33, 63}    \* . ! ?

\* first index >= i of s that holds no whitespace (Len(s) + 1 if none)
RECURSIVE SkipSpaces(_, _)
SkipSpaces(s, i) ==
    IF i <= Len(s) /\ IsSpace(s[i]) THEN SkipSpaces(s, i + 1) ELSE i

\* the positions >= from at which the pattern (?<=[.!?])\s+ matches
Delimiters(s, from) ==
    {i \in from..Len(s) : IsSpace(s[i]) /\ i > 1 /\ s[i - 1] \in Terminal}

\* re.split(r'(?<=[.!?])\s+', s), the pieces from position start on
RECURSIVE SplitFrom(_, _)
SplitFrom(s, start) ==
    IF Delimiters(s, start) = {} THEN << SubSeq(s, start, Len(s)) >>
    ELSE LET i == Least(Delimiters(s, start))
         IN  << SubSeq(s, start, i - 1) >> \o SplitFrom(s, SkipSpaces(s, i))

SplitSentences(s) == SplitFrom(s, 1)

-----------------------------------------------------------------------------
(* Step 3: greedy packing *)

\* the flush test on the untrimmed accumulator
BranchUntrimmed(cur, sentence, mn, mx) ==
    IF Strip(sentence) = <<>> THEN "continue"
    ELSE IF Len(cur) + Len(sentence) + 1 <= mx THEN "append"
    ELSE IF Len(cur) >= mn THEN "flush"
    ELSE "force"

\* the fit test without the accumulator's length
BranchIgnoresCurrent(cur, sentence, mn, mx) ==
    IF Strip(sentence) = <<>> THEN "continue"
    ELSE IF Len(sentence) + 1 <= mx THEN "append"
    ELSE IF Len(Strip(cur)) >= mn THEN "flush"
    ELSE "force"

\* the fit test with < for <=
BranchStrict(cur, sentence, mn, mx) ==
    IF Strip(sentence) = <<>> THEN "continue"
    ELSE IF Len(cur) + Len(sentence) + 1 < mx THEN "append"
    ELSE IF Len(Strip(cur)) >= mn THEN "flush"
    ELSE "force"

\* the branch one iteration of the for loop takes (lines 40-49)
Branch(cur, sentence, mn, mx) ==
    IF Strip(sentence) = <<>> THEN "continue"
    ELSE IF Len(cur) + Len(sentence) + 1 <= mx THEN "append"
    ELSE IF Len(Strip(cur)) >= mn THEN "flush"
    ELSE "force"

\* "\n".join(lines)
RECURSIVE JoinWith(_, _)
JoinWith(ls, sep) ==
    IF ls = <<>> THEN <<>>
    ELSE IF Len(ls) = 1 THEN ls[1]
    ELSE ls[1] \o sep \o JoinWith(Tail(ls), sep)

-----------------------------------------------------------------------------
(* sanitize_and_prepare_text_for_llm, one action per step *)

\* lines 20-31
Normalize ==
    /\ pc = "step1"
    /\ text' = Step1(text)
    /\ pc' = "step2"
    /\ UNCHANGED <<cvars, input, min_chars, max_chars, sentences, idx, current, lines,
                   result, pending, merged, lineInfo, trace>>

\* lines 34-38
Split ==
    /\ pc = "step2"
    /\ sentences' = SplitSentences(text)
    /\ lines' = <<>>
    /\ current' = <<>>
    /\ idx' = 1
    /\ pc' = "step3"
    /\ UNCHANGED <<cvars, input, min_chars, max_chars, text, result, pending, merged,
                   lineInfo, trace>>

InLoop == pc = "step3" /\ idx <= Len(sentences)

\* the length of the sentences of `current` and sentence s, joined by single spaces
JoinedLen(s) == Len(JoinWith(pending \o <<s>>, <<Space>>))

\* lines 40-41
Continue ==
    /\ InLoop
    /\ Branch(current, sentences[idx], min_chars, max_chars) = "continue"
    /\ idx' = idx + 1
    /\ UNCHANGED <<cvars, input, min_chars, max_chars, text, sentences, current, lines,
                   result, pc, pending, merged, lineInfo, trace>>

\* lines 42-43
AppendSentence ==
    /\ InLoop
    /\ Branch(current, sentences[idx], min_chars, max_chars) = "append"
    /\ current' = current \o sentences[idx] \o <<Space>>
    /\ idx' = idx + 1
    /\ pending' = Append(pending, sentences[idx])
    /\ trace' = Append(trace, [branch |-> "append", joined |-> JoinedLen(sentences[idx])])
    /\ UNCHANGED <<cvars, input, min_chars, max_chars, text, sentences, lines, result, pc,
                   merged, lineInfo>>

\* the flush that restarts the accumulator empty
FlushLosesSentence ==
    /\ InLoop
    /\ Branch(current, sentences[idx], min_chars, max_chars) = "flush"
    /\ lines' = Append(lines, Strip(current))
    /\ current' = <<>>
    /\ idx' = idx + 1
    /\ lineInfo' = Append(lineInfo, [merged |-> merged, sents |-> pending, final |-> FALSE])
    /\ pending' = <<>>
    /\ merged' = FALSE
    /\ trace' = Append(trace, [branch |-> "flush", joined |-> JoinedLen(sentences[idx])])
    /\ UNCHANGED <<cvars, input, min_chars, max_chars, text, sentences, result, pc>>

\* lines 45-47
Flush ==
    /\ InLoop
    /\ Branch(current, sentences[idx], min_chars, max_chars) = "flush"
    /\ lines' = Append(lines, Strip(current))
    /\ current' = sentences[idx] \o <<Space>>
    /\ idx' = idx + 1
    /\ lineInfo' = Append(lineInfo, [merged |-> merged, sents |-> pending, final |-> FALSE])
    /\ pending' = <<sentences[idx]>>
    /\ merged' = FALSE
    /\ trace' = Append(trace, [branch |-> "flush", joined |-> JoinedLen(sentences[idx])])
    /\ UNCHANGED <<cvars, input, min_chars, max_chars, text, sentences, result, pc>>

\* lines 48-49
ForceMerge ==
    /\ InLoop
    /\ Branch(current, sentences[idx], min_chars, max_chars) = "force"
    /\ current' = current \o sentences[idx] \o <<Space>>
    /\ idx' = idx + 1
    /\ pending' = Append(pending, sentences[idx])
    /\ merged' = TRUE
    /\ trace' = Append(trace, [branch |-> "force", joined |-> JoinedLen(sentences[idx])])
    /\ UNCHANGED <<cvars, input, min_chars, max_chars, text, sentences, lines, result, pc,
                   lineInfo>>

\* the loop's result without the final push
FinalLinesForgotten(cur, ls) == ls

\* lines 51-52: the value of `lines` after the loop
FinalLines(cur, ls) ==
    IF Strip(cur) # <<>> THEN Append(ls, Strip(cur)) ELSE ls

\* lines 51-54
Return ==
    /\ pc = "step3"
    /\ idx > Len(sentences)
    /\ lines' = FinalLines(current, lines)
    /\ lineInfo' = IF Strip(current) # <<>>
                   THEN Append(lineInfo, [merged |-> merged, sents |-> pending, final |-> TRUE])
                   ELSE lineInfo
    /\ result' = JoinWith(FinalLines(current, lines), <<Newline>>)
    /\ pc' = "done"
    /\ UNCHANGED <<cvars, input, min_chars, max_chars, text, sentences, idx, current,
                   pending, merged, trace>>

Next ==
    \/ Normalize
    \/ Split
    \/ Continue
    \/ AppendSentence
    \/ Flush
    \/ ForceMerge
    \/ Return

-----------------------------------------------------------------------------
(* The inputs *)

MaxTokens == 4
MaxMinChars == 3
MaxMaxChars == 6

\* every concatenation of at most n of the tokens
RECURSIVE TextsOver(_, _)
TextsOver(tokens, n) ==
    IF n = 0 THEN {<<>>}
    ELSE LET shorter == TextsOver(tokens, n - 1)
         IN  shorter \cup {t \o w : t \in shorter, w \in tokens}

\* "A. "   "Bbb!\n"   "cc" NBSP   BEL e-acute TAB
ChunkTokens ==
    { <<65, 46, 32>>, <<66, 98, 98, 33, 10>>, <<99, 99, Nbsp>>, <<7, 233, 9>> }

ChunkTexts == TextsOver(ChunkTokens, MaxTokens)

Start(t, mn, mx) ==
    /\ input = t
    /\ text = t
    /\ min_chars = mn
    /\ max_chars = mx
    /\ sentences = <<>>
    /\ idx = 0
    /\ current = <<>>
    /\ lines = <<>>
    /\ result = <<>>
    /\ pc = "step1"
    /\ pending = <<>>
    /\ merged = FALSE
    /\ lineInfo = <<>>
    /\ trace = <<>>

NoPath == [given |-> FALSE, path |-> <<>>]

\* main has not been entered
CliIdle ==
    /\ cli_pc = "idle"
    /\ file_path = NoPath
    /\ text_content = <<>>
    /\ out_name = <<>>
    /\ processed_text = <<>>
    /\ tts_calls = <<>>
    /\ log = <<>>
    /\ failure = "none"

Init ==
    /\ \E t \in ChunkTexts, mn \in 0..MaxMinChars, mx \in 0..MaxMaxChars :
           Start(t, mn, mx)
    /\ CliIdle

Spec == Init /\ [][Next]_vars

-----------------------------------------------------------------------------
(* Normalization inputs: typographic punctuation, control characters,       *)
(* whitespace, and the two halves  ": "  and  "'", a  of the table's long   *)
(* key.                                                                     *)

MaxNormTokens == 3

DefaultMinChars == 100
DefaultMaxChars == 300

\* the four curly quotes: U+201C U+201D (double), U+2018 U+2019 (single)
CurlyDouble == {8220, 8221}
CurlySingle == {8216, 8217}

NormTokens ==
    { <<97>>, <<46>>, <<Space>>, <<9>>, <<7>>,
      <<8220>>, <<8221>>, <<8216>>, <<8217>>,
      <<EmDash>>, <<EnDash>>, <<Nbsp>>,
      <<58, 32>>, <<34, 39, 34, 44, 32, 97>> }

NormTexts == TextsOver(NormTokens, MaxNormTokens)

InitNorm ==
    /\ \E t \in NormTexts :
           \/ Start(t, DefaultMinChars, DefaultMaxChars)
           \/ Start(t, 1, 3)
    /\ CliIdle

SpecNorm == InitNorm /\ [][Next]_vars

-----------------------------------------------------------------------------
(* The function as a whole, as main calls it *)

RECURSIVE PackFrom(_, _, _, _, _, _)
PackFrom(ss, k, cur, ls, mn, mx) ==
    IF k > Len(ss) THEN FinalLines(cur, ls)
    ELSE LET b == Branch(cur, ss[k], mn, mx)
         IN  IF b = "continue" THEN PackFrom(ss, k + 1, cur, ls, mn, mx)
             ELSE IF b = "flush"
                  THEN PackFrom(ss, k + 1, ss[k] \o <<Space>>, Append(ls, Strip(cur)), mn, mx)
                  ELSE PackFrom(ss, k + 1, cur \o ss[k] \o <<Space>>, ls, mn, mx)

sanitize_and_prepare_text_for_llm(t, mn, mx) ==
    JoinWith(PackFrom(SplitSentences(Step1(t)), 1, <<>>, <<>>, mn, mx), <<Newline>>)

-----------------------------------------------------------------------------
(* main and the __main__ block *)

\* the literal of lines 107-112
ExampleText ==
    << 10, 32, 32, 32, 32, 32, 32, 32, 32, 84, 104, 105, 115, 32, 105, 115, 32, 97, 32, 108,
       111, 110, 103, 101, 114, 32, 69, 110, 103, 108, 105, 115, 104, 32, 116, 101, 120, 116, 32, 116,
       111, 32, 100, 101, 109, 111, 110, 115, 116, 114, 97, 116, 101, 32, 116, 104, 101, 32, 116, 101,
       120, 116, 45, 116, 111, 45, 115, 112, 101, 101, 99, 104, 32, 99, 97, 112, 97, 98, 105, 108,
       105, 116, 105, 101, 115, 46, 32, 10, 32, 32, 32, 32, 32, 32, 32, 32, 84, 104, 101, 32,
       115, 121, 115, 116, 101, 109, 32, 99, 97, 110, 32, 104, 97, 110, 100, 108, 101, 32, 109, 117,
       108, 116, 105, 112, 108, 101, 32, 115, 101, 110, 116, 101, 110, 99, 101, 115, 32, 97, 110, 100,
       32, 119, 105, 108, 108, 32, 103, 101, 110, 101, 114, 97, 116, 101, 32, 110, 97, 116, 117, 114,
       97, 108, 45, 115, 111, 117, 110, 100, 105, 110, 103, 32, 115, 112, 101, 101, 99, 104, 46, 10,
       32, 32, 32, 32, 32, 32, 32, 32, 89, 111, 117, 32, 99, 97, 110, 32, 117, 115, 101, 32,
       116, 104, 105, 115, 32, 115, 99, 114, 105, 112, 116, 32, 116, 111, 32, 99, 111, 110, 118, 101,
       114, 116, 32, 97, 110, 121, 32, 116, 101, 120, 116, 32, 102, 105, 108, 101, 32, 116, 111, 32,
       115, 112, 101, 101, 99, 104, 44, 32, 111, 114, 32, 114, 117, 110, 32, 105, 116, 32, 119, 105,
       116, 104, 111, 117, 116, 32, 97, 114, 103, 117, 109, 101, 110, 116, 115, 32, 116, 111, 32, 104,
       101, 97, 114, 32, 116, 104, 105, 115, 32, 101, 120, 97, 109, 112, 108, 101, 46, 10, 32, 32,
       32, 32, 32, 32, 32, 32, 84, 104, 101, 32, 116, 101, 120, 116, 32, 112, 114, 111, 99, 101,
       115, 115, 105, 110, 103, 32, 102, 117, 110, 99, 116, 105, 111, 110, 32, 119, 105, 108, 108, 32,
       97, 117, 116, 111, 109, 97, 116, 105, 99, 97, 108, 108, 121, 32, 115, 112, 108, 105, 116, 32,
       108, 111, 110, 103, 32, 116, 101, 120, 116, 115, 32, 105, 110, 116, 111, 32, 111, 112, 116, 105,
       109, 97, 108, 32, 99, 104, 117, 110, 107, 115, 32, 102, 111, 114, 32, 98, 101, 116, 116, 101,
       114, 32, 115, 112, 101, 101, 99, 104, 32, 115, 121, 110, 116, 104, 101, 115, 105, 115, 46, 10,
       32, 32, 32, 32, 32, 32, 32, 32 >>

\* "example_output"
ExampleOutName == <<101, 120, 97, 109, 112, 108, 101, 95, 111, 117, 116, 112, 117, 116>>

\* ".wav"
WavSuffix == <<46, 119, 97, 118>>

\* `if file_path:` -- None and "" are both false
Truthy(fp) == fp.given /\ fp.path # <<>>

\* file_path.split(".")[0]
RECURSIVE BeforeDot(_)
BeforeDot(s) ==
    IF s = <<>> \/ s[1] = 46 THEN <<>> ELSE <<s[1]>> \o BeforeDot(Tail(s))

MaxFileTokens == 2

\* what the input file may hold
FileTexts == TextsOver(ChunkTokens, MaxFileTokens)

\* sys.argv[1], when given:  ""   "a.txt"   "b.c.md"
ArgPaths == { <<>>, <<97, 46, 116, 120, 116>>, <<98, 46, 99, 46, 109, 100>> }

\* line 92 succeeds
LoadModel ==
    /\ cli_pc = "load"
    /\ cli_pc' = "source"
    /\ UNCHANGED <<fvars, file_path, text_content, out_name, processed_text,
                   tts_calls, log, failure>>

\* line 92 raises: main has no handler around it, the exception reaches
\* lines 141-142
LoadModelFails ==
    /\ cli_pc = "load"
    /\ failure' = "model_load"
    /\ log' = Append(log, "An error occurred")
    /\ cli_pc' = "exit"
    /\ UNCHANGED <<fvars, file_path, text_content, out_name, processed_text, tts_calls>>

\* lines 95-99, read_file returns
ReadFile ==
    /\ cli_pc = "source"
    /\ Truthy(file_path)
    /\ \E content \in FileTexts : text_content' = content
    /\ out_name' = BeforeDot(file_path.path)
    /\ cli_pc' = "process"
    /\ UNCHANGED <<fvars, file_path, processed_text, tts_calls, log, failure>>

\* lines 74-75 and 100-103
ReadFileNotFound ==
    /\ cli_pc = "source"
    /\ Truthy(file_path)
    /\ failure' = "file_not_found"
    /\ log' = log \o <<"Error: File not found", "Using example text instead...">>
    /\ file_path' = NoPath
    /\ UNCHANGED <<fvars, cli_pc, text_content, out_name, processed_text, tts_calls>>

\* the handler of line 100 catching FileNotFoundError only
ReadFileIOErrorUncaught ==
    /\ cli_pc = "source"
    /\ Truthy(file_path)
    /\ failure' = "io_error"
    /\ log' = Append(log, "An error occurred")
    /\ cli_pc' = "exit"
    /\ UNCHANGED <<fvars, file_path, text_content, out_name, processed_text, tts_calls>>

\* lines 76-77 and 100-103
ReadFileIOError ==
    /\ cli_pc = "source"
    /\ Truthy(file_path)
    /\ failure' = "io_error"
    /\ log' = log \o <<"Error: Error reading file", "Using example text instead...">>
    /\ file_path' = NoPath
    /\ UNCHANGED <<fvars, cli_pc, text_content, out_name, processed_text, tts_calls>>

\* lines 105-114
UseExample ==
    /\ cli_pc = "source"
    /\ ~Truthy(file_path)
    /\ text_content' = ExampleText
    /\ out_name' = ExampleOutName
    /\ log' = Append(log, "Using example text...")
    /\ cli_pc' = "process"
    /\ UNCHANGED <<fvars, file_path, processed_text, tts_calls, failure>>

\* line 117
Process ==
    /\ cli_pc = "process"
    /\ processed_text' =
           sanitize_and_prepare_text_for_llm(text_content, DefaultMinChars, DefaultMaxChars)
    /\ cli_pc' = "check"
    /\ UNCHANGED <<fvars, file_path, text_content, out_name, tts_calls, log, failure>>

\* lines 119-121
NoContent ==
    /\ cli_pc = "check"
    /\ processed_text = <<>>
    /\ log' = Append(log, "Error: No content to process")
    /\ cli_pc' = "exit"
    /\ UNCHANGED <<fvars, file_path, text_content, out_name, processed_text,
                   tts_calls, failure>>

\* lines 123-129
Synthesize ==
    /\ cli_pc = "check"
    /\ processed_text # <<>>
    /\ tts_calls' = Append(tts_calls,
                           [text |-> processed_text, file_path |-> out_name \o WavSuffix])
    /\ cli_pc' = "exit"
    /\ UNCHANGED <<fvars, file_path, text_content, out_name, processed_text, log, failure>>

NextCli ==
    \/ LoadModel
    \/ LoadModelFails
    \/ ReadFile
    \/ ReadFileNotFound
    \/ ReadFileIOError
    \/ UseExample
    \/ Process
    \/ NoContent
    \/ Synthesize

\* lines 131-138: main is entered with sys.argv[1] or with no argument
InitCli ==
    /\ Start(<<>>, DefaultMinChars, DefaultMaxChars)
    /\ cli_pc = "load"
    /\ file_path \in {NoPath} \cup {[given |-> TRUE, path |-> a] : a \in ArgPaths}
    /\ text_content = <<>>
    /\ out_name = <<>>
    /\ processed_text = <<>>
    /\ tts_calls = <<>>
    /\ log = <<>>
    /\ failure = "none"

SpecCli == InitCli /\ [][NextCli]_vars

-----------------------------------------------------------------------------
(* Notions the properties are stated in *)

\* the chunks of an output string: the empty string holds no chunk, any other
\* string is cut at each newline
RECURSIVE CutAt(_, _)
CutAt(s, c) ==
    IF Occurrences(s, <<c>>) = {} THEN <<s>>
    ELSE LET p == Least(Occurrences(s, <<c>>))
         IN  <<SubSeq(s, 1, p - 1)>> \o CutAt(SubSeq(s, p + 1, Len(s)), c)

ChunksOf(s) == IF s = <<>> THEN <<>> ELSE CutAt(s, Newline)

NotBlank(s) == Strip(s) # <<>>

\* the non-empty sentences of a string
SentencesOf(s) == SelectSeq(SplitSentences(s), NotBlank)

RECURSIVE Flatten(_)
Flatten(ss) == IF ss = <<>> THEN <<>> ELSE ss[1] \o Flatten(Tail(ss))

Count(s, chars) == Cardinality({i \in 1..Len(s) : s[i] \in chars})

Normalized == pc # "step1"
Returned == pc = "done"

-----------------------------------------------------------------------------
(* C1: sentence conservation.  When the function has returned, the sentences *)
(* of the output's chunks, chunk after chunk, are exactly the non-empty      *)
(* sentences Step 2 produced from the normalized text: none dropped,         *)
(* duplicated, reordered or split across chunks, a sentence longer than      *)
(* max_chars included.                                                       *)
C1_SentenceConservation ==
    Returned =>
        Flatten([i \in 1..Len(ChunksOf(result)) |-> SentencesOf(ChunksOf(result)[i])])
            = SelectSeq(sentences, NotBlank)

C1_Witness ==
    /\ Returned
    /\ Len(ChunksOf(result)) >= 3
    /\ Len(SelectSeq(sentences, NotBlank)) >= 4
    /\ \E k \in 1..Len(sentences) : Len(sentences[k]) > max_chars /\ max_chars > 0

(* C2: minimum bound policy.  Every chunk other than the final one, the one  *)
(* pushed after the loop, has trimmed length >= min_chars; this holds of     *)
(* `lines` while the loop runs and of the chunks of the returned string.     *)
C2_MinimumBound ==
    /\ ~Returned =>
           \A i \in 1..Len(lines) : Len(Strip(lines[i])) >= min_chars
    /\ Returned =>
           /\ \A i \in 1..(Len(ChunksOf(result)) - 1) :
                  Len(Strip(ChunksOf(result)[i])) >= min_chars
           /\ lines # <<>> => lineInfo[Len(lines)].final

C2_Witness ==
    /\ Returned
    /\ min_chars >= 2
    /\ Len(ChunksOf(result)) >= 3
    /\ Len(ChunksOf(result)[Len(ChunksOf(result))]) < min_chars

(* C3 as stated: with 1 <= min_chars < max_chars, every chunk but the last   *)
(* that never went through the force-merge branch has length <= max_chars.   *)
C3_Original ==
    (1 <= min_chars /\ min_chars < max_chars) =>
        \A i \in 1..Len(lines) :
            (~lineInfo[i].final /\ ~lineInfo[i].merged) => Len(lines[i]) <= max_chars

(* C3 amended: with 1 <= min_chars < max_chars, every chunk but the last has *)
(* length <= max_chars unless it was force-merged or its first sentence,     *)
(* which the flush branch put into a fresh accumulator, is by itself longer  *)
(* than max_chars.                                                           *)
C3_ChunkBound ==
    (1 <= min_chars /\ min_chars < max_chars) =>
        \A i \in 1..Len(lines) :
            ( /\ ~lineInfo[i].final
              /\ ~lineInfo[i].merged
              /\ Len(lineInfo[i].sents[1]) <= max_chars )
            => Len(lines[i]) <= max_chars

C3_Witness ==
    /\ 1 <= min_chars
    /\ min_chars < max_chars
    /\ \E i \in 1..Len(lines) :
           /\ ~lineInfo[i].final
           /\ ~lineInfo[i].merged
           /\ Len(lineInfo[i].sents) >= 2
           /\ Len(lines[i]) <= max_chars
    /\ \E i \in 1..Len(lines) :
           /\ lineInfo[i].merged
           /\ Len(lines[i]) > max_chars

(* C4: idempotence of normalization.  Step 1 applied to the normalized text  *)
(* gives the normalized text again.                                          *)
C4_Idempotence ==
    Normalized => Step1(text) = text

\* the input with every curly quote written as the straight quote
StraightQuotes(s) ==
    [i \in 1..Len(s) |->
        IF s[i] \in CurlyDouble THEN 34
        ELSE IF s[i] \in CurlySingle THEN 39
        ELSE s[i]]

(* C5: curly-quote substitution.  Each curly double quote shows in the       *)
(* normalized text as a straight double quote and each curly single quote as *)
(* a straight single quote, in place: the input normalizes to what the input *)
(* with its curly quotes written straight normalizes to, and no curly quote  *)
(* is lost.                                                                  *)
C5_CurlyQuotes ==
    Normalized =>
        /\ text = Step1(StraightQuotes(input))
        /\ Count(input, CurlyDouble \cup CurlySingle) > 0 => Count(text, {34, 39}) > 0

\* the input with every dash written as a hyphen and every non-breaking space
\* as a whitespace character (a tab)
PlainDashes(s) ==
    [i \in 1..Len(s) |->
        IF s[i] \in {EmDash, EnDash} THEN Hyphen
        ELSE IF s[i] = Nbsp THEN 9
        ELSE s[i]]

(* C6: dash and non-breaking-space substitution.  Each em dash and en dash   *)
(* shows in the normalized text as a hyphen (none is deleted), and a         *)
(* non-breaking space acts as whitespace: it separates words and is          *)
(* collapsed with its neighbours, exactly as a whitespace character in its   *)
(* place would.                                                              *)
C6_DashAndNbsp ==
    Normalized =>
        /\ text = Step1(PlainDashes(input))
        /\ Count(text, {Hyphen}) = Count(input, {Hyphen, EmDash, EnDash})
        /\ Count(text, {Nbsp}) = 0

C6_Witness ==
    /\ Normalized
    /\ input = <<EnDash, Nbsp, EmDash>>
    /\ text = <<Hyphen, Space, Hyphen>>

(* C7: empty output for empty input.  The function returns the empty string  *)
(* exactly when the normalized text is empty, and it is empty whenever every *)
(* character of the input is whitespace or a character normalization removes.*)
C7_EmptyOutput ==
    Returned =>
        /\ (result = <<>>) <=> (text = <<>>)
        /\ (\A i \in 1..Len(input) : Step1(<<input[i]>>) = <<>>) => result = <<>>
        /\ result = <<>> => lines = <<>>

C7_Witness ==
    /\ Returned
    /\ Len(input) >= 4
    /\ \A i \in 1..Len(input) : Step1(<<input[i]>>) = <<>>
    /\ result = <<>>
    /\ min_chars = 0

Overflow(b) == b \in {"flush", "force"}

(* C8 as stated: a sentence takes the overflow branch (flush or force-merge) *)
(* exactly when the current chunk's sentences joined with it by single       *)
(* spaces are longer than max_chars; a joined length of exactly max_chars is *)
(* appended.                                                                 *)
C8_Original ==
    \A k \in 1..Len(trace) :
        Overflow(trace[k].branch) <=> trace[k].joined > max_chars

(* C8 amended: a sentence takes the overflow branch exactly when the joined  *)
(* text plus the one trailing space the accumulator carries is longer than   *)
(* max_chars, i.e. when the joined text has length >= max_chars; it is       *)
(* appended, with no chunk boundary before it, exactly when the joined text  *)
(* is shorter than max_chars.                                                *)
C8_GreedyBoundary ==
    \A k \in 1..Len(trace) :
        /\ Overflow(trace[k].branch) <=> trace[k].joined + 1 > max_chars
        /\ trace[k].branch = "append" <=> trace[k].joined < max_chars

C8_Witness ==
    /\ \E k \in 2..Len(trace) :
           trace[k].joined = max_chars /\ trace[k].branch = "flush"
    /\ \E k \in 1..Len(trace) :
           trace[k].joined = max_chars - 1 /\ trace[k].branch = "append"

\* the synthesis call on the example text under the default output name
ExampleCall ==
    [text |-> sanitize_and_prepare_text_for_llm(ExampleText, DefaultMinChars, DefaultMaxChars),
     file_path |-> ExampleOutName \o WavSuffix]

Exited == cli_pc = "exit"

(* C9 as stated: after a file-not-found error, an I/O error while reading or *)
(* a failure to load the speech model, the run falls back to the example     *)
(* text and reaches the synthesis call on it, under example_output.wav.      *)
C9_Original ==
    (Exited /\ failure \in {"file_not_found", "io_error", "model_load"}) =>
        tts_calls = <<ExampleCall>>

(* C9 amended: a file-not-found error and an I/O error while reading are     *)
(* caught in main, reported, and followed by the fallback: the run reaches   *)
(* the synthesis call on the example text under example_output.wav.  A       *)
(* failure to load the speech model is not caught in main: the __main__      *)
(* block reports it and the run ends without any synthesis call.             *)
C9_ErrorFallback ==
    Exited =>
        /\ failure \in {"file_not_found", "io_error"} =>
               /\ tts_calls = <<ExampleCall>>
               /\ \E k \in 1..Len(log) : log[k] = "Using example text instead..."
        /\ failure = "model_load" =>
               /\ tts_calls = <<>>
               /\ log = <<"An error occurred">>

C9_Witness ==
    /\ Exited
    /\ failure = "io_error"
    /\ Len(tts_calls) = 1
    /\ Len(ChunksOf(tts_calls[1].text)) = 2

(* C10: output format.  With min_chars >= 1 and any max_chars (0 included),  *)
(* the returned string holds only printable ASCII and newlines; cut at the   *)
(* newlines it gives exactly the emitted chunks; each chunk is non-empty,    *)
(* neither starts nor ends with a space and holds no two spaces in a row.    *)
C10_OutputFormat ==
    (Returned /\ min_chars >= 1) =>
        /\ \A i \in 1..Len(result) :
               (result[i] >= 32 /\ result[i] <= 126) \/ result[i] = Newline
        /\ ChunksOf(result) = lines
        /\ \A i \in 1..Len(lines) :
               /\ lines[i] # <<>>
               /\ lines[i][1] # Space
               /\ lines[i][Len(lines[i])] # Space
               /\ \A j \in 1..(Len(lines[i]) - 1) :
                      ~(lines[i][j] = Space /\ lines[i][j + 1] = Space)
               /\ lines[i] = JoinWith(lineInfo[i].sents, <<Space>>)

C10_Witness ==
    /\ Returned
    /\ min_chars >= 1
    /\ max_chars = 0
    /\ Len(lines) >= 2
    /\ \E i \in 1..Len(input) : input[i] > 126
    /\ \E i \in 1..Len(input) : input[i] < 32
    /\ \E i \in 1..Len(lines) : Len(lineInfo[i].sents) >= 2

====
